---- MODULE Spec2Model ----
(***************************************************************************)
(* Model of eywa-database: the configuration holder (config.rs), the       *)
(* connection factory (pool.rs) and the two transaction wrappers           *)
(* (transaction.rs).  The external database client (sea-orm) and the       *)
(* caller's unit of work are the environment: each of their calls either   *)
(* succeeds or fails with a client error.                                  *)
(***************************************************************************)
EXTENDS Integers, Sequences, FiniteSets, TLC

\* ---------------------------------------------------------------- bounds
MaxVal == 2        \* success values a unit of work may return: 1..MaxVal
MaxDbErr == 2      \* distinct errors the database client may report
MaxNum == 1        \* non-default numbers a serialized configuration may carry

Values == 1..MaxVal
DbErr == 1..MaxDbErr

\* ---------------------------------------------------------------- errors
\* eywa_errors::AppError: the DatabaseError variant wraps a client error;
\* NotFound stands for the variants a unit of work may return on its own.
DatabaseError(d) == <<"DatabaseError", d>>
AppError == {DatabaseError(d) : d \in DbErr} \cup {<<"NotFound", 0>>}
\* The caller's own error type E of with_transaction_custom_err.
MyError == {<<"Foo", 0>>, <<"Bar", 0>>}

Ok(v) == <<"Ok", v>>
Err(e) == <<"Err", e>>
IsOk(r) == Len(r) = 2 /\ r[1] = "Ok"
IsErr(r) == Len(r) = 2 /\ r[1] = "Err"
None == <<>>

WT == "with_transaction"
WTC == "with_transaction_custom_err"
Procs == {WT, WTC}

\* What the client leaves behind when commit or rollback reports a failure:
\* the transaction is still open, or the client aborted it.
FailedTxnStates == {"Begun", "RolledBack"}

VARIABLES
    pc,        \* per wrapper call: idle, begin, work, commit, rollback, done
    txn,       \* per wrapper call: state of its transaction handle
    calls,     \* per wrapper call: calls issued so far (begin, f, commit, rollback)
    log,       \* per wrapper call: log lines emitted
    beginRes,  \* per wrapper call: outcome of db.begin()
    fres,      \* per wrapper call: outcome of the unit of work
    endRes,    \* per wrapper call: outcome of txn.commit() / txn.rollback()
    ret,       \* per wrapper call: value returned by the wrapper
    from_app,  \* E: From<AppError> of the custom-error variant
    urlArg,    \* url handed to DatabaseConfig::new / Database::connect
    ser,       \* serialized configuration handed to the deserializer
    cfgOp,     \* how cfg was built
    cfg,       \* the configuration built, <<>> when none
    connPc,    \* connection factory: idle, connecting, done
    connVia,   \* entry point used: connect or connect_with_config
    connOpt,   \* ConnectOptions handed to the client, one entry per attempt
    connLog,   \* log lines of the connection factory
    connRes,   \* outcome the client reported for the connect attempt
    connRet    \* value returned by the connection factory

txnVars == <<pc, txn, calls, log, beginRes, fres, endRes, ret, from_app>>
cfgVars == <<urlArg, ser, cfgOp, cfg>>
connVars == <<connPc, connVia, connOpt, connLog, connRes, connRet>>
vars == <<pc, txn, calls, log, beginRes, fres, endRes, ret, from_app,
          urlArg, ser, cfgOp, cfg, connPc, connVia, connOpt, connLog, connRes, connRet>>

\* ------------------------------------------------------- config.rs
default_max_connections == 100
default_min_connections == 5
default_connect_timeout == 8
default_acquire_timeout == 8
default_idle_timeout == 8
default_max_lifetime == 8
default_sql_logging == TRUE

\* A faulty Default that hard-codes timeouts instead of calling the default functions.
DatabaseConfig_default_hardcoded ==
    [url |-> "postgres://localhost:5432/eywa",
     max_connections |-> default_max_connections,
     min_connections |-> default_min_connections,
     connect_timeout_secs |-> default_connect_timeout,
     acquire_timeout_secs |-> default_acquire_timeout,
     idle_timeout_secs |-> 600,
     max_lifetime_secs |-> 1800,
     sql_logging |-> default_sql_logging]

\* impl Default for DatabaseConfig
DatabaseConfig_default ==
    [url |-> "postgres://localhost:5432/eywa",
     max_connections |-> default_max_connections,
     min_connections |-> default_min_connections,
     connect_timeout_secs |-> default_connect_timeout,
     acquire_timeout_secs |-> default_acquire_timeout,
     idle_timeout_secs |-> default_idle_timeout,
     max_lifetime_secs |-> default_max_lifetime,
     sql_logging |-> default_sql_logging]

\* DatabaseConfig::new: Self { url: url.into(), ..Default::default() }
DatabaseConfig_new(url) == [DatabaseConfig_default EXCEPT !.url = url]

\* A field of a serialized configuration: <<>> when absent, <<v>> when present.
Opt(S) == {<<>>} \cup {<<x>> : x \in S}

\* #[serde(default = "f")]: the supplied value, or f() when the field is absent.
serde_default(field, f) == IF field = <<>> THEN f ELSE field[1]

\* A faulty deserializer that fills a missing field with the type's zero value.
Deserialize_type_default(s) ==
    IF s.url = <<>> THEN Err("missing field url")
    ELSE Ok([url |-> s.url[1],
             max_connections |-> serde_default(s.max_connections, default_max_connections),
             min_connections |-> serde_default(s.min_connections, default_min_connections),
             connect_timeout_secs |-> serde_default(s.connect_timeout_secs, default_connect_timeout),
             acquire_timeout_secs |-> serde_default(s.acquire_timeout_secs, default_acquire_timeout),
             idle_timeout_secs |-> serde_default(s.idle_timeout_secs, default_idle_timeout),
             max_lifetime_secs |-> serde_default(s.max_lifetime_secs, 0),
             sql_logging |-> serde_default(s.sql_logging, FALSE)])

\* #[derive(Deserialize)] for DatabaseConfig; url has no default and is required.
Deserialize(s) ==
    IF s.url = <<>> THEN Err("missing field url")
    ELSE Ok([url |-> s.url[1],
             max_connections |-> serde_default(s.max_connections, default_max_connections),
             min_connections |-> serde_default(s.min_connections, default_min_connections),
             connect_timeout_secs |-> serde_default(s.connect_timeout_secs, default_connect_timeout),
             acquire_timeout_secs |-> serde_default(s.acquire_timeout_secs, default_acquire_timeout),
             idle_timeout_secs |-> serde_default(s.idle_timeout_secs, default_idle_timeout),
             max_lifetime_secs |-> serde_default(s.max_lifetime_secs, default_max_lifetime),
             sql_logging |-> serde_default(s.sql_logging, default_sql_logging)])

\* std::time::Duration::from_secs
Duration_from_secs(secs) == [secs |-> secs, nanos |-> 0]
connect_timeout(c) == Duration_from_secs(c.connect_timeout_secs)
acquire_timeout(c) == Duration_from_secs(c.acquire_timeout_secs)
idle_timeout(c) == Duration_from_secs(c.idle_timeout_secs)
max_lifetime(c) == Duration_from_secs(c.max_lifetime_secs)

\* Inputs of the configuration holder.
Urls == {"postgres://localhost:5432/eywa", "postgres://localhost/test"}
Nums == 1..MaxNum
SerForms ==
    [url : Opt(Urls),
     max_connections : Opt(Nums),
     min_connections : Opt(Nums),
     connect_timeout_secs : Opt(Nums),
     acquire_timeout_secs : Opt(Nums),
     idle_timeout_secs : Opt(Nums),
     max_lifetime_secs : Opt(Nums),
     sql_logging : Opt(BOOLEAN)]
EmptySer ==
    [url |-> <<>>, max_connections |-> <<>>, min_connections |-> <<>>,
     connect_timeout_secs |-> <<>>, acquire_timeout_secs |-> <<>>,
     idle_timeout_secs |-> <<>>, max_lifetime_secs |-> <<>>, sql_logging |-> <<>>]

\* The caller builds a configuration from a URL alone.
BuildNew ==
    \E u \in Urls :
        /\ cfgOp = "none"
        /\ urlArg' = u
        /\ cfg' = <<DatabaseConfig_new(u)>>
        /\ cfgOp' = "new"
        /\ UNCHANGED <<ser, txnVars, connVars>>

\* The caller takes DatabaseConfig::default().
BuildDefault ==
    /\ cfgOp = "none"
    /\ cfg' = <<DatabaseConfig_default>>
    /\ cfgOp' = "default"
    /\ UNCHANGED <<urlArg, ser, txnVars, connVars>>

\* The caller deserializes a configuration.
BuildDeserialize ==
    \E s \in SerForms :
        /\ cfgOp = "none"
        /\ ser' = s
        /\ cfg' = IF IsOk(Deserialize(s)) THEN <<Deserialize(s)[2]>> ELSE <<>>
        /\ cfgOp' = IF IsOk(Deserialize(s)) THEN "deserialize" ELSE "deserialize_err"
        /\ UNCHANGED <<urlArg, txnVars, connVars>>

\* ------------------------------------------------------- pool.rs
\* ConnectOptions::new(url) followed by the seven setters.
ConnectOptions(config) ==
    [url |-> config.url,
     max_connections |-> config.max_connections,
     min_connections |-> config.min_connections,
     connect_timeout |-> connect_timeout(config),
     acquire_timeout |-> acquire_timeout(config),
     idle_timeout |-> idle_timeout(config),
     max_lifetime |-> max_lifetime(config),
     sqlx_logging |-> config.sql_logging]

\* Database::connect_with_config up to the await of SeaDatabase::connect.
connect_with_config(config) ==
    /\ connPc = "idle"
    /\ connLog' = Append(connLog, "info: Connecting to database...")
    /\ connOpt' = Append(connOpt, ConnectOptions(config))
    /\ connPc' = "connecting"
    /\ UNCHANGED <<connRes, connRet>>

\* Database::connect(db_url): delegates with DatabaseConfig::new(db_url).
Database_connect ==
    \E u \in Urls :
        /\ cfgOp = "none"
        /\ urlArg' = u
        /\ cfg' = <<DatabaseConfig_new(u)>>
        /\ cfgOp' = "new"
        /\ connVia' = "connect"
        /\ connect_with_config(DatabaseConfig_new(u))
        /\ UNCHANGED <<ser, txnVars>>

\* Database::connect_with_config(&config) on a configuration the caller built.
Database_connect_with_config ==
    /\ cfg # <<>>
    /\ connVia' = "connect_with_config"
    /\ connect_with_config(cfg[1])
    /\ UNCHANGED <<cfgVars, txnVars>>

\* SeaDatabase::connect(opt) succeeds: the handle is returned as is.
connect_ok ==
    /\ connPc = "connecting"
    /\ connRes' = Ok(connOpt[Len(connOpt)].url)
    /\ connRet' = Ok(connOpt[Len(connOpt)].url)
    /\ connPc' = "done"
    /\ UNCHANGED <<connVia, connOpt, connLog, cfgVars, txnVars>>

\* A faulty factory that tries again after a failed attempt.
connect_err_retry(d) ==
    /\ connPc = "connecting"
    /\ connRes' = Err(d)
    /\ connOpt' = Append(connOpt, connOpt[Len(connOpt)])
    /\ UNCHANGED <<connPc, connRet, connVia, connLog, cfgVars, txnVars>>

\* SeaDatabase::connect(opt) fails: .map_err(AppError::DatabaseError), no retry.
connect_err(d) ==
    /\ connPc = "connecting"
    /\ connRes' = Err(d)
    /\ connRet' = Err(DatabaseError(d))
    /\ connPc' = "done"
    /\ UNCHANGED <<connVia, connOpt, connLog, cfgVars, txnVars>>

\* ------------------------------------------------------- transaction.rs
Line(level, msg, arg) == <<level, msg, arg>>

\* with_transaction: debug!("Starting transaction"); db.begin().await
with_transaction_call ==
    /\ pc[WT] = "idle"
    /\ log' = [log EXCEPT ![WT] = Append(@, Line("debug", "Starting transaction", <<>>))]
    /\ calls' = [calls EXCEPT ![WT] = Append(@, "begin")]
    /\ pc' = [pc EXCEPT ![WT] = "begin"]
    /\ UNCHANGED <<txn, beginRes, fres, endRes, ret, from_app, cfgVars, connVars>>

\* A faulty wrapper that runs the unit of work although begin failed.
with_transaction_begin_err_runs_f(d) ==
    /\ pc[WT] = "begin"
    /\ beginRes' = [beginRes EXCEPT ![WT] = Err(d)]
    /\ calls' = [calls EXCEPT ![WT] = Append(@, "f")]
    /\ pc' = [pc EXCEPT ![WT] = "work"]
    /\ UNCHANGED <<txn, log, fres, endRes, ret, from_app, cfgVars, connVars>>

\* begin failed: .map_err(AppError::DatabaseError)? returns at once
with_transaction_begin_err(d) ==
    /\ pc[WT] = "begin"
    /\ beginRes' = [beginRes EXCEPT ![WT] = Err(d)]
    /\ ret' = [ret EXCEPT ![WT] = Err(DatabaseError(d))]
    /\ pc' = [pc EXCEPT ![WT] = "done"]
    /\ UNCHANGED <<txn, calls, log, fres, endRes, from_app, cfgVars, connVars>>

\* begin succeeded: f(&txn).await
with_transaction_begin_ok ==
    /\ pc[WT] = "begin"
    /\ beginRes' = [beginRes EXCEPT ![WT] = Ok(0)]
    /\ txn' = [txn EXCEPT ![WT] = "Begun"]
    /\ calls' = [calls EXCEPT ![WT] = Append(@, "f")]
    /\ pc' = [pc EXCEPT ![WT] = "work"]
    /\ UNCHANGED <<log, fres, endRes, ret, from_app, cfgVars, connVars>>

\* A faulty wrapper that returns the result without committing.
with_transaction_f_ok_no_commit(v) ==
    /\ pc[WT] = "work"
    /\ fres' = [fres EXCEPT ![WT] = Ok(v)]
    /\ ret' = [ret EXCEPT ![WT] = Ok(v)]
    /\ pc' = [pc EXCEPT ![WT] = "done"]
    /\ UNCHANGED <<txn, calls, log, beginRes, endRes, from_app, cfgVars, connVars>>

\* Ok(result) => txn.commit().await
with_transaction_f_ok(v) ==
    /\ pc[WT] = "work"
    /\ fres' = [fres EXCEPT ![WT] = Ok(v)]
    /\ calls' = [calls EXCEPT ![WT] = Append(@, "commit")]
    /\ pc' = [pc EXCEPT ![WT] = "commit"]
    /\ UNCHANGED <<txn, log, beginRes, endRes, ret, from_app, cfgVars, connVars>>

\* A faulty wrapper that returns the failure without rolling back.
with_transaction_f_err_no_rollback(e) ==
    /\ pc[WT] = "work"
    /\ fres' = [fres EXCEPT ![WT] = Err(e)]
    /\ ret' = [ret EXCEPT ![WT] = Err(e)]
    /\ pc' = [pc EXCEPT ![WT] = "done"]
    /\ UNCHANGED <<txn, calls, log, beginRes, endRes, from_app, cfgVars, connVars>>

\* Err(e) => txn.rollback().await
with_transaction_f_err(e) ==
    /\ pc[WT] = "work"
    /\ fres' = [fres EXCEPT ![WT] = Err(e)]
    /\ calls' = [calls EXCEPT ![WT] = Append(@, "rollback")]
    /\ pc' = [pc EXCEPT ![WT] = "rollback"]
    /\ UNCHANGED <<txn, log, beginRes, endRes, ret, from_app, cfgVars, connVars>>

\* commit succeeded: debug!, Ok(result)
with_transaction_commit_ok ==
    /\ pc[WT] = "commit"
    /\ endRes' = [endRes EXCEPT ![WT] = Ok(0)]
    /\ txn' = [txn EXCEPT ![WT] = "Committed"]
    /\ log' = [log EXCEPT ![WT] = Append(@, Line("debug", "Transaction committed successfully", <<>>))]
    /\ ret' = [ret EXCEPT ![WT] = Ok(fres[WT][2])]
    /\ pc' = [pc EXCEPT ![WT] = "done"]
    /\ UNCHANGED <<calls, beginRes, fres, from_app, cfgVars, connVars>>

\* A faulty wrapper that ignores the commit failure.
with_transaction_commit_err_swallowed(d, post) ==
    /\ pc[WT] = "commit"
    /\ endRes' = [endRes EXCEPT ![WT] = Err(d)]
    /\ txn' = [txn EXCEPT ![WT] = post]
    /\ ret' = [ret EXCEPT ![WT] = Ok(fres[WT][2])]
    /\ pc' = [pc EXCEPT ![WT] = "done"]
    /\ UNCHANGED <<calls, log, beginRes, fres, from_app, cfgVars, connVars>>

\* commit failed: .map_err(AppError::DatabaseError)? drops result
with_transaction_commit_err(d, post) ==
    /\ pc[WT] = "commit"
    /\ endRes' = [endRes EXCEPT ![WT] = Err(d)]
    /\ txn' = [txn EXCEPT ![WT] = post]
    /\ ret' = [ret EXCEPT ![WT] = Err(DatabaseError(d))]
    /\ pc' = [pc EXCEPT ![WT] = "done"]
    /\ UNCHANGED <<calls, log, beginRes, fres, from_app, cfgVars, connVars>>

\* rollback succeeded: debug!, Err(e)
with_transaction_rollback_ok ==
    /\ pc[WT] = "rollback"
    /\ endRes' = [endRes EXCEPT ![WT] = Ok(0)]
    /\ txn' = [txn EXCEPT ![WT] = "RolledBack"]
    /\ log' = [log EXCEPT ![WT] = Append(@, Line("debug", "Transaction rolled back due to error", <<>>))]
    /\ ret' = [ret EXCEPT ![WT] = Err(fres[WT][2])]
    /\ pc' = [pc EXCEPT ![WT] = "done"]
    /\ UNCHANGED <<calls, beginRes, fres, from_app, cfgVars, connVars>>

\* A faulty wrapper that surfaces the rollback failure.
with_transaction_rollback_err_surfaced(d, post) ==
    /\ pc[WT] = "rollback"
    /\ endRes' = [endRes EXCEPT ![WT] = Err(d)]
    /\ txn' = [txn EXCEPT ![WT] = post]
    /\ log' = [log EXCEPT ![WT] = Append(@, Line("warn", "Failed to rollback transaction", DatabaseError(d)))]
    /\ ret' = [ret EXCEPT ![WT] = Err(DatabaseError(d))]
    /\ pc' = [pc EXCEPT ![WT] = "done"]
    /\ UNCHANGED <<calls, beginRes, fres, from_app, cfgVars, connVars>>

\* rollback failed: warn!, Err(e)
with_transaction_rollback_err(d, post) ==
    /\ pc[WT] = "rollback"
    /\ endRes' = [endRes EXCEPT ![WT] = Err(d)]
    /\ txn' = [txn EXCEPT ![WT] = post]
    /\ log' = [log EXCEPT ![WT] = Append(@, Line("warn", "Failed to rollback transaction", DatabaseError(d)))]
    /\ ret' = [ret EXCEPT ![WT] = Err(fres[WT][2])]
    /\ pc' = [pc EXCEPT ![WT] = "done"]
    /\ UNCHANGED <<calls, beginRes, fres, from_app, cfgVars, connVars>>

\* with_transaction_custom_err::<F, R, E>: the call fixes E and its From<AppError>
with_transaction_custom_err_call(conv) ==
    /\ pc[WTC] = "idle"
    /\ from_app' = conv
    /\ log' = [log EXCEPT ![WTC] = Append(@, Line("debug", "Starting transaction", <<>>))]
    /\ calls' = [calls EXCEPT ![WTC] = Append(@, "begin")]
    /\ pc' = [pc EXCEPT ![WTC] = "begin"]
    /\ UNCHANGED <<txn, beginRes, fres, endRes, ret, cfgVars, connVars>>

\* begin failed: AppError::DatabaseError(e).into() returned at once
with_transaction_custom_err_begin_err(d) ==
    /\ pc[WTC] = "begin"
    /\ beginRes' = [beginRes EXCEPT ![WTC] = Err(d)]
    /\ ret' = [ret EXCEPT ![WTC] = Err(from_app[DatabaseError(d)])]
    /\ pc' = [pc EXCEPT ![WTC] = "done"]
    /\ UNCHANGED <<txn, calls, log, fres, endRes, from_app, cfgVars, connVars>>

\* begin succeeded: f(&txn).await
with_transaction_custom_err_begin_ok ==
    /\ pc[WTC] = "begin"
    /\ beginRes' = [beginRes EXCEPT ![WTC] = Ok(0)]
    /\ txn' = [txn EXCEPT ![WTC] = "Begun"]
    /\ calls' = [calls EXCEPT ![WTC] = Append(@, "f")]
    /\ pc' = [pc EXCEPT ![WTC] = "work"]
    /\ UNCHANGED <<log, fres, endRes, ret, from_app, cfgVars, connVars>>

\* Ok(result) => txn.commit().await
with_transaction_custom_err_f_ok(v) ==
    /\ pc[WTC] = "work"
    /\ fres' = [fres EXCEPT ![WTC] = Ok(v)]
    /\ calls' = [calls EXCEPT ![WTC] = Append(@, "commit")]
    /\ pc' = [pc EXCEPT ![WTC] = "commit"]
    /\ UNCHANGED <<txn, log, beginRes, endRes, ret, from_app, cfgVars, connVars>>

\* Err(e) => txn.rollback().await
with_transaction_custom_err_f_err(e) ==
    /\ pc[WTC] = "work"
    /\ fres' = [fres EXCEPT ![WTC] = Err(e)]
    /\ calls' = [calls EXCEPT ![WTC] = Append(@, "rollback")]
    /\ pc' = [pc EXCEPT ![WTC] = "rollback"]
    /\ UNCHANGED <<txn, log, beginRes, endRes, ret, from_app, cfgVars, connVars>>

\* commit succeeded: debug!, Ok(result)
with_transaction_custom_err_commit_ok ==
    /\ pc[WTC] = "commit"
    /\ endRes' = [endRes EXCEPT ![WTC] = Ok(0)]
    /\ txn' = [txn EXCEPT ![WTC] = "Committed"]
    /\ log' = [log EXCEPT ![WTC] = Append(@, Line("debug", "Transaction committed successfully", <<>>))]
    /\ ret' = [ret EXCEPT ![WTC] = Ok(fres[WTC][2])]
    /\ pc' = [pc EXCEPT ![WTC] = "done"]
    /\ UNCHANGED <<calls, beginRes, fres, from_app, cfgVars, connVars>>

\* A faulty wrapper that rolls back after a failed commit.
with_transaction_custom_err_commit_err_then_rollback(d, post) ==
    /\ pc[WTC] = "commit"
    /\ endRes' = [endRes EXCEPT ![WTC] = Err(d)]
    /\ txn' = [txn EXCEPT ![WTC] = post]
    /\ calls' = [calls EXCEPT ![WTC] = Append(@, "rollback")]
    /\ ret' = [ret EXCEPT ![WTC] = Err(from_app[DatabaseError(d)])]
    /\ pc' = [pc EXCEPT ![WTC] = "done"]
    /\ UNCHANGED <<log, beginRes, fres, from_app, cfgVars, connVars>>

\* commit failed: AppError::DatabaseError(e).into() returned, result dropped
with_transaction_custom_err_commit_err(d, post) ==
    /\ pc[WTC] = "commit"
    /\ endRes' = [endRes EXCEPT ![WTC] = Err(d)]
    /\ txn' = [txn EXCEPT ![WTC] = post]
    /\ ret' = [ret EXCEPT ![WTC] = Err(from_app[DatabaseError(d)])]
    /\ pc' = [pc EXCEPT ![WTC] = "done"]
    /\ UNCHANGED <<calls, log, beginRes, fres, from_app, cfgVars, connVars>>

\* rollback succeeded: debug!, Err(e)
with_transaction_custom_err_rollback_ok ==
    /\ pc[WTC] = "rollback"
    /\ endRes' = [endRes EXCEPT ![WTC] = Ok(0)]
    /\ txn' = [txn EXCEPT ![WTC] = "RolledBack"]
    /\ log' = [log EXCEPT ![WTC] = Append(@, Line("debug", "Transaction rolled back due to error", <<>>))]
    /\ ret' = [ret EXCEPT ![WTC] = Err(fres[WTC][2])]
    /\ pc' = [pc EXCEPT ![WTC] = "done"]
    /\ UNCHANGED <<calls, beginRes, fres, from_app, cfgVars, connVars>>

\* A faulty wrapper that converts and surfaces the rollback failure.
with_transaction_custom_err_rollback_err_surfaced(d, post) ==
    /\ pc[WTC] = "rollback"
    /\ endRes' = [endRes EXCEPT ![WTC] = Err(d)]
    /\ txn' = [txn EXCEPT ![WTC] = post]
    /\ log' = [log EXCEPT ![WTC] = Append(@, Line("warn", "Failed to rollback transaction", <<"DbErr", d>>))]
    /\ ret' = [ret EXCEPT ![WTC] = Err(from_app[DatabaseError(d)])]
    /\ pc' = [pc EXCEPT ![WTC] = "done"]
    /\ UNCHANGED <<calls, beginRes, fres, from_app, cfgVars, connVars>>

\* rollback failed: warn! with the client's error, Err(e)
with_transaction_custom_err_rollback_err(d, post) ==
    /\ pc[WTC] = "rollback"
    /\ endRes' = [endRes EXCEPT ![WTC] = Err(d)]
    /\ txn' = [txn EXCEPT ![WTC] = post]
    /\ log' = [log EXCEPT ![WTC] = Append(@, Line("warn", "Failed to rollback transaction", <<"DbErr", d>>))]
    /\ ret' = [ret EXCEPT ![WTC] = Err(fres[WTC][2])]
    /\ pc' = [pc EXCEPT ![WTC] = "done"]
    /\ UNCHANGED <<calls, beginRes, fres, from_app, cfgVars, connVars>>

\* ------------------------------------------------------- specifications
Init ==
    /\ pc = [p \in Procs |-> "idle"]
    /\ txn = [p \in Procs |-> "None"]
    /\ calls = [p \in Procs |-> <<>>]
    /\ log = [p \in Procs |-> <<>>]
    /\ beginRes = [p \in Procs |-> None]
    /\ fres = [p \in Procs |-> None]
    /\ endRes = [p \in Procs |-> None]
    /\ ret = [p \in Procs |-> None]
    /\ from_app = [e \in AppError |-> <<"Bar", 0>>]
    /\ urlArg = ""
    /\ ser = EmptySer
    /\ cfgOp = "none"
    /\ cfg = <<>>
    /\ connPc = "idle"
    /\ connVia = "none"
    /\ connOpt = <<>>
    /\ connLog = <<>>
    /\ connRes = None
    /\ connRet = None

\* One call of each transaction wrapper against the database client.
Next ==
    \/ with_transaction_call
    \/ \E d \in DbErr : with_transaction_begin_err(d)
    \/ with_transaction_begin_ok
    \/ \E v \in Values : with_transaction_f_ok(v)
    \/ \E e \in AppError : with_transaction_f_err(e)
    \/ with_transaction_commit_ok
    \/ \E d \in DbErr, post \in FailedTxnStates : with_transaction_commit_err(d, post)
    \/ with_transaction_rollback_ok
    \/ \E d \in DbErr, post \in FailedTxnStates : with_transaction_rollback_err(d, post)
    \/ \E conv \in [AppError -> MyError] : with_transaction_custom_err_call(conv)
    \/ \E d \in DbErr : with_transaction_custom_err_begin_err(d)
    \/ with_transaction_custom_err_begin_ok
    \/ \E v \in Values : with_transaction_custom_err_f_ok(v)
    \/ \E e \in MyError : with_transaction_custom_err_f_err(e)
    \/ with_transaction_custom_err_commit_ok
    \/ \E d \in DbErr, post \in FailedTxnStates : with_transaction_custom_err_commit_err(d, post)
    \/ with_transaction_custom_err_rollback_ok
    \/ \E d \in DbErr, post \in FailedTxnStates : with_transaction_custom_err_rollback_err(d, post)

Spec == Init /\ [][Next]_vars

\* A caller builds a configuration and connects once.
NextConfig ==
    \/ BuildNew
    \/ BuildDefault
    \/ BuildDeserialize
    \/ Database_connect
    \/ Database_connect_with_config
    \/ connect_ok
    \/ \E d \in DbErr : connect_err(d)

SpecConfig == Init /\ [][NextConfig]_vars

\* ------------------------------------------------------- properties
Count(seq, x) == Cardinality({i \in DOMAIN seq : seq[i] = x})
IsOkWith(r, v) == IsOk(r) /\ r[2] = v
IsErrWith(r, e) == IsErr(r) /\ r[2] = e
Done(p) == pc[p] = "done"

\* C1: when begin succeeds, the unit of work returns a success value v and
\* commit succeeds, with_transaction returns exactly v and the transaction is
\* committed at return; with_transaction never returns a success value for a
\* transaction that is not committed.
C1_SuccessMeansCommitted ==
    /\ (Done(WT) /\ IsOk(beginRes[WT]) /\ IsOk(fres[WT]) /\ IsOk(endRes[WT]))
          => (IsOkWith(ret[WT], fres[WT][2]) /\ txn[WT] = "Committed")
    /\ IsOk(ret[WT]) => (txn[WT] = "Committed" /\ IsOk(endRes[WT]))

C1_Witness ==
    /\ Done(WT) /\ IsOk(beginRes[WT]) /\ IsOkWith(fres[WT], 2) /\ IsOk(endRes[WT])
    /\ IsOkWith(ret[WT], 2) /\ txn[WT] = "Committed"

\* C2: when begin succeeds and the unit of work returns a failure e,
\* with_transaction issues a rollback and then returns exactly e, whether the
\* rollback succeeds or fails; nothing is returned before the rollback.
C2_FailureReturnedAfterRollback ==
    IsErr(fres[WT]) =>
        /\ Count(calls[WT], "rollback") = 1
        /\ ret[WT] # None => (endRes[WT] # None /\ IsErrWith(ret[WT], fres[WT][2]))
        /\ Done(WT) => ret[WT] # None

C2_Witness ==
    /\ Done(WT) /\ IsErrWith(fres[WT], <<"NotFound", 0>>) /\ IsErrWith(endRes[WT], 1)
    /\ IsErrWith(ret[WT], <<"NotFound", 0>>)

\* C3: the unit of work is invoked exactly once if begin succeeds and never
\* if begin fails; when begin fails the wrapper has returned the database
\* error wrapping the begin failure and no commit or rollback was issued.
C3_BeginFailureShortCircuits ==
    \A p \in Procs :
        /\ IsOk(beginRes[p]) => Count(calls[p], "f") = 1
        /\ IsErr(beginRes[p]) =>
              /\ calls[p] = <<"begin">>
              /\ Done(p)
              /\ fres[p] = None /\ endRes[p] = None
              /\ p = WT => IsErrWith(ret[p], DatabaseError(beginRes[p][2]))
              /\ p = WTC => IsErrWith(ret[p], from_app[DatabaseError(beginRes[p][2])])

C3_Witness ==
    /\ IsErrWith(beginRes[WT], 2) /\ Done(WT)
    /\ IsOk(beginRes[WTC]) /\ Done(WTC)

\* C4: when begin succeeds, the unit of work returns a success value v and
\* commit fails, with_transaction returns the database error wrapping the
\* commit failure and not v.
C4_CommitFailureReturned ==
    (Done(WT) /\ IsOk(fres[WT]) /\ IsErr(endRes[WT]))
        => (IsErrWith(ret[WT], DatabaseError(endRes[WT][2])) /\ ~IsOk(ret[WT]))

C4_Witness ==
    /\ Done(WT) /\ IsOkWith(fres[WT], 1) /\ IsErrWith(endRes[WT], 2)
    /\ IsErrWith(ret[WT], DatabaseError(2))

\* C5 as stated: every transaction begun by a wrapper is committed or rolled
\* back when the wrapper returns, also when commit or rollback fails.
C5_TerminalOnEveryExit ==
    \A p \in Procs :
        (Done(p) /\ IsOk(beginRes[p])) => txn[p] \in {"Committed", "RolledBack"}

\* C5 (amended): for every transaction begun by a wrapper, exactly one of
\* commit (after a successful unit of work) or rollback (after a failed one)
\* has been issued and answered when the wrapper returns, and the transaction
\* is committed, respectively rolled back, whenever that call succeeded.
C5_ReleaseIssuedOnEveryExit ==
    \A p \in Procs :
        (Done(p) /\ IsOk(beginRes[p])) =>
            /\ Count(calls[p], "commit") + Count(calls[p], "rollback") = 1
            /\ endRes[p] # None
            /\ IsOk(fres[p]) => Count(calls[p], "commit") = 1
            /\ IsErr(fres[p]) => Count(calls[p], "rollback") = 1
            /\ (IsOk(endRes[p]) /\ IsOk(fres[p])) => txn[p] = "Committed"
            /\ (IsOk(endRes[p]) /\ IsErr(fres[p])) => txn[p] = "RolledBack"

C5_Witness ==
    /\ Done(WT) /\ IsErr(fres[WT]) /\ IsErr(endRes[WT]) /\ txn[WT] = "Begun"
    /\ Done(WTC) /\ IsOk(fres[WTC]) /\ IsOk(endRes[WTC]) /\ txn[WTC] = "Committed"

\* C9: under the same begin, unit-of-work, commit and rollback outcomes the
\* two wrappers issue the same calls and return corresponding results: the
\* same success value, a begin or commit failure as DatabaseError in
\* with_transaction and as its conversion in with_transaction_custom_err, a
\* unit-of-work failure unchanged in both.
SameOutcomes ==
    /\ beginRes[WT] = beginRes[WTC]
    /\ IsOk(fres[WT]) <=> IsOk(fres[WTC])
    /\ IsErr(fres[WT]) <=> IsErr(fres[WTC])
    /\ IsOk(fres[WT]) => fres[WT] = fres[WTC]
    /\ endRes[WT] = endRes[WTC]

C9_VariantsAgree ==
    (Done(WT) /\ Done(WTC) /\ SameOutcomes) =>
        /\ calls[WT] = calls[WTC]
        /\ IsOk(ret[WT]) <=> IsOk(ret[WTC])
        /\ IsOk(ret[WT]) => ret[WT] = ret[WTC]
        /\ IsErr(beginRes[WT]) =>
              /\ IsErrWith(ret[WT], DatabaseError(beginRes[WT][2]))
              /\ IsErrWith(ret[WTC], from_app[DatabaseError(beginRes[WT][2])])
        /\ (IsOk(fres[WT]) /\ IsErr(endRes[WT])) =>
              /\ IsErrWith(ret[WT], DatabaseError(endRes[WT][2]))
              /\ IsErrWith(ret[WTC], from_app[DatabaseError(endRes[WT][2])])
        /\ IsErr(fres[WT]) =>
              /\ IsErrWith(ret[WT], fres[WT][2])
              /\ IsErrWith(ret[WTC], fres[WTC][2])
        /\ (IsOk(endRes[WT]) /\ IsOk(endRes[WTC])) => txn[WT] = txn[WTC]

C9_Witness ==
    /\ Done(WT) /\ Done(WTC) /\ SameOutcomes
    /\ IsErr(fres[WT]) /\ IsErrWith(endRes[WT], 1)
    /\ IsErrWith(ret[WTC], <<"Foo", 0>>)
    /\ from_app[DatabaseError(1)] = <<"Bar", 0>>

\* C10: per handle the calls issued follow begin, f, then commit or rollback:
\* commit only after the unit of work succeeded, rollback only after it
\* failed, each at most once, never both, and nothing is issued after a
\* failed commit or rollback.
AllowedCalls ==
    {<<>>, <<"begin">>, <<"begin", "f">>,
     <<"begin", "f", "commit">>, <<"begin", "f", "rollback">>}

C10_StateMachine ==
    \A p \in Procs :
        /\ calls[p] \in AllowedCalls
        /\ Count(calls[p], "commit") = 1 => IsOk(fres[p])
        /\ Count(calls[p], "rollback") = 1 => IsErr(fres[p])
        /\ txn[p] = "None" => Count(calls[p], "f") = 0
        /\ txn[p] = "Committed" => (Count(calls[p], "commit") = 1 /\ IsOk(endRes[p]))
        /\ (txn[p] = "RolledBack" /\ IsOk(endRes[p])) => Count(calls[p], "rollback") = 1
        /\ endRes[p] # None => Done(p)

C10_Witness ==
    /\ Done(WTC) /\ calls[WTC] = <<"begin", "f", "commit">> /\ IsErr(endRes[WTC])
    /\ Done(WT) /\ calls[WT] = <<"begin", "f", "rollback">> /\ IsErr(endRes[WT])

\* C6: DatabaseConfig::new(u) has url u, max_connections 100,
\* min_connections 5, every timeout 8 seconds and sql_logging true.
C6_NewUsesDefaults ==
    cfgOp = "new" =>
        /\ cfg[1].url = urlArg
        /\ cfg[1].max_connections = 100
        /\ cfg[1].min_connections = 5
        /\ cfg[1].connect_timeout_secs = 8
        /\ cfg[1].acquire_timeout_secs = 8
        /\ cfg[1].idle_timeout_secs = 8
        /\ cfg[1].max_lifetime_secs = 8
        /\ cfg[1].sql_logging = TRUE

C6_Witness ==
    cfgOp = "new" /\ connVia = "none" /\ urlArg = "postgres://localhost/test"
        /\ cfg[1].url = "postgres://localhost/test"

\* C7: a serialized configuration with url and any subset of the other
\* fields deserializes to the supplied values and, for each missing field,
\* the value DatabaseConfig::new gives it; with only url u it equals
\* DatabaseConfig::new(u).
Supplied(field, got, dflt) == IF field = <<>> THEN got = dflt ELSE got = field[1]
OnlyUrl(s) == s.url # <<>> /\ s = [EmptySer EXCEPT !.url = s.url]

C7_DeserializeFillsDefaults ==
    cfgOp = "deserialize" =>
        LET n == DatabaseConfig_new(ser.url[1])
            c == cfg[1]
        IN  /\ c.url = ser.url[1]
            /\ Supplied(ser.max_connections, c.max_connections, n.max_connections)
            /\ Supplied(ser.min_connections, c.min_connections, n.min_connections)
            /\ Supplied(ser.connect_timeout_secs, c.connect_timeout_secs, n.connect_timeout_secs)
            /\ Supplied(ser.acquire_timeout_secs, c.acquire_timeout_secs, n.acquire_timeout_secs)
            /\ Supplied(ser.idle_timeout_secs, c.idle_timeout_secs, n.idle_timeout_secs)
            /\ Supplied(ser.max_lifetime_secs, c.max_lifetime_secs, n.max_lifetime_secs)
            /\ Supplied(ser.sql_logging, c.sql_logging, n.sql_logging)
            /\ OnlyUrl(ser) => c = n

C7_Witness ==
    /\ cfgOp = "deserialize" /\ OnlyUrl(ser) /\ ser.url = <<"postgres://localhost/test">>
    /\ cfg[1] = DatabaseConfig_new("postgres://localhost/test")

\* C8: a call of Database::connect or Database::connect_with_config issues
\* exactly one connect attempt; a failed attempt is returned as the database
\* error wrapping the client's error, a successful one returns the handle;
\* Database::connect connects with the options of DatabaseConfig::new(url).
C8_SingleConnectAttempt ==
    /\ connPc = "idle" => Len(connOpt) = 0
    /\ connPc # "idle" => Len(connOpt) = 1
    /\ connRes # None => connPc = "done"
    /\ (connPc = "done" /\ IsErr(connRes)) => IsErrWith(connRet, DatabaseError(connRes[2]))
    /\ (connPc = "done" /\ IsOk(connRes)) => (IsOk(connRet) /\ connRet = connRes)
    /\ connVia = "connect" => connOpt[1] = ConnectOptions(DatabaseConfig_new(urlArg))
    /\ connVia = "connect_with_config" => connOpt[1] = ConnectOptions(cfg[1])

C8_Witness ==
    /\ connPc = "done" /\ connVia = "connect" /\ IsErrWith(connRes, 2)
    /\ IsErrWith(connRet, DatabaseError(2)) /\ Len(connOpt) = 1

====
